---- MODULE Spec2Model ----
(***************************************************************************)
(* Model of the mini-app's Session Gate (App.checkPermission and the root  *)
(* render), Login/Bind flow (LoginScreen.handleSendOtp, handleVerify) and  *)
(* QR scanner (QrScanner.openScanner, normalizeUrl). Strings the code      *)
(* inspects (the email, scanned payloads) are sequences of one-character   *)
(* strings; JavaScript values are tagged records [t, n, s].                *)
(***************************************************************************)
EXTENDS Integers, Sequences, FiniteSets, Bags, TLC

\* ------------------------------------------------------------- bounds
\* Cap on handler invocations suspended at an await at the same time.
MaxInFlight == 2
\* Cap on openScanner invocations not yet over (awaiting, or timer armed).
MaxScans == 2

\* ------------------------------------------------------- JavaScript values
JsUndefined == [t |-> "undefined", n |-> 0, s |-> << >>]
JsNull == [t |-> "null", n |-> 0, s |-> << >>]
JsNum(k) == [t |-> "number", n |-> k, s |-> << >>]
JsStr(digits) == [t |-> "string", n |-> 0, s |-> digits]
\* No row for the subject in table "profiles".
NoRecord == [t |-> "norecord", n |-> 0, s |-> << >>]

\* ToNumber of a string of decimal digits ("" is 0).
RECURSIVE ToNumber(_)
ToNumber(digits) ==
  IF digits = << >> THEN 0
  ELSE 10 * ToNumber(SubSeq(digits, 1, Len(digits) - 1)) + digits[Len(digits)]

\* if (v): undefined, null, 0 and "" are falsy.
Truthy(v) ==
  CASE v.t = "number" -> v.n # 0
    [] v.t = "string" -> v.s # << >>
    [] OTHER -> FALSE

\* The mutant of LooseEq: strict equality (===), no conversion.
LooseEq_Strict(a, b) == a.t = b.t /\ a.n = b.n /\ a.s = b.s

\* a == b of JavaScript, for b a number: a string operand is converted by
\* ToNumber, null and undefined equal only each other.
LooseEq(a, b) ==
  CASE a.t = "number" /\ b.t = "number" -> a.n = b.n
    [] a.t = "string" /\ b.t = "number" -> ToNumber(a.s) = b.n
    [] a.t \in {"null", "undefined"} -> b.t \in {"null", "undefined"}
    [] OTHER -> FALSE

\* ------------------------------------------------------------- strings
\* String.prototype.endsWith
EndsWith(str, suffix) ==
  /\ Len(str) >= Len(suffix)
  /\ SubSeq(str, Len(str) - Len(suffix) + 1, Len(str)) = suffix

\* String.prototype.includes
Includes(str, part) ==
  \E i \in 0..(Len(str) - Len(part)) : SubSeq(str, i + 1, i + Len(part)) = part

\* "@favoritemedium.com"
AllowedSuffix ==
  << "@", "f", "a", "v", "o", "r", "i", "t", "e", "m", "e", "d", "i", "u", "m",
     ".", "c", "o", "m" >>

EmailEmpty == << >>
EmailA == << "a" >> \o AllowedSuffix
EmailNoLocal == AllowedSuffix
EmailTruncated == SubSeq(EmailA, 1, Len(EmailA) - 1)
EmailTrailingSpace == EmailA \o << " " >>
EmailOther == << "a", "@", "g", "m", "a", "i", "l", ".", "c", "o", "m" >>

\* What the user can type into the Email input.
TypedEmails ==
  { EmailEmpty, EmailA, EmailNoLocal, EmailTruncated, EmailTrailingSpace,
    EmailOther }

\* The mutant of EmailAllowed: includes() in place of endsWith().
EmailAllowed_Includes(e) == Includes(e, AllowedSuffix)

\* if (!email.endsWith("@favoritemedium.com")) -> rejected
EmailAllowed(e) == EndsWith(e, AllowedSuffix)

\* ------------------------------------------------------------ environment
Subjects == {"u1", "u2"}
NoSession == "none"
PlatformIds == {111, 222}

\* The backend's account for an email (created if absent by signInWithOtp).
SubjectOf(e) == IF e = EmailA THEN "u1" ELSE "u2"

\* Values of profiles.telegram_id, or no row at all.
ProfileValues ==
  { NoRecord, JsNull, JsStr(<< 1, 1, 1 >>) } \cup { JsNum(k) : k \in PlatformIds }

\* The launch context of this load. raw: what initData.raw() gives
\* ("undefined", "empty", "signed", or "throws" when the bridge call throws);
\* user: the numeric user id inside the signed payload, JsUndefined without.
LaunchContexts ==
  { [raw |-> "undefined", user |-> JsUndefined],
    [raw |-> "empty", user |-> JsUndefined],
    [raw |-> "signed", user |-> JsUndefined],
    [raw |-> "throws", user |-> JsUndefined] }
  \cup { [raw |-> "signed", user |-> JsNum(k)] : k \in PlatformIds }

VARIABLES
  launch,     \* the launch context (fixed for the load)
  session,    \* backend session: NoSession or its subject
  profiles,   \* backend table profiles: subject -> telegram_id value
  isChecking, \* App state
  hasAccess,  \* App state
  chk,        \* the checkPermission invocation
  email,      \* LoginScreen state
  step,       \* LoginScreen state
  loading,    \* LoginScreen state
  active,     \* handler invocations suspended at an await
  settled,    \* the handler invocation that ended in the last step
  afterBindFailure, \* history: "no", or since the last bind error "quiet"
              \* (no signInWithOtp/verifyOtp call made) or "called"
  codeSent,   \* history: the email of the most recent signInWithOtp call that
              \* returned without error, if any
  qrResult,   \* QrScanner state: JsNull or the displayed payload
  error,      \* QrScanner state: the error message shown, or none
  debugLogs,  \* QrScanner state: the newest entry of the on-screen log
  scans,      \* the bag of openScanner invocations suspended at an await,
              \* or ended with their diagnostic timer still armed
  scanEv,     \* what the scanner did in the last step
  nz          \* the last normalizeUrl call made on its own: input and result

vars ==
  << launch, session, profiles, isChecking, hasAccess, chk, email, step,
     loading, active, settled, afterBindFailure, codeSent, qrResult, error,
     debugLogs, scans, scanEv, nz >>

scanVars == << qrResult, error, debugLogs, scans, scanEv, nz >>
appVars ==
  << launch, session, profiles, isChecking, hasAccess, chk, email, step,
     loading, active, settled, afterBindFailure, codeSent >>

loginVars == << email, step, loading, active, settled, afterBindFailure >>
backendVars == << session, profiles >>

\* ---------------------------------------------------------------- App
\* Outcomes of an awaited backend read: data returned, { error } returned,
\* or the promise rejects.
ReadOutcomes == {"ok", "error", "throws"}

\* initData.state()?.user?.id
CurrentTgId == launch.user

\* The root render: spinner while checking, else routes or LoginScreen.
Rendered ==
  IF isChecking THEN "loading" ELSE IF hasAccess THEN "main" ELSE "login"

\* { data: { session } } of getSession: null when absent or on error.
SessionData(outcome) == IF outcome = "ok" THEN session ELSE NoSession

\* { data: profile } of .from("profiles").select("telegram_id")
\* .eq("id", subject).single(): the row's telegram_id, NoRecord for null data.
ProfileData(outcome, subject) ==
  IF outcome = "ok" /\ subject \in DOMAIN profiles THEN profiles[subject]
  ELSE NoRecord

\* profile && profile.telegram_id == currentTgId
ProfileMatches(profile, currentTgId) ==
  profile # NoRecord /\ LooseEq(profile, currentTgId)

\* The mutant of CheckSettles: setIsChecking(false) is left out.
CheckSettles_StillChecking(grant, failed) ==
  /\ hasAccess' = grant
  /\ UNCHANGED isChecking
  /\ chk' = [chk EXCEPT !.pc = "done", !.granted = IF grant THEN "true" ELSE "false",
                        !.failed = failed]

\* setHasAccess(grant); setIsChecking(false); the function returns.
CheckSettles(grant, failed) ==
  /\ hasAccess' = grant
  /\ isChecking' = FALSE
  /\ chk' = [chk EXCEPT !.pc = "done", !.granted = IF grant THEN "true" ELSE "false",
                        !.failed = failed]

\* An awaited call rejects or a bridge read throws: checkPermission rejects
\* where it stands, nothing after it runs.
CheckRejects ==
  /\ chk' = [chk EXCEPT !.pc = "rejected", !.failed = TRUE]
  /\ UNCHANGED << isChecking, hasAccess >>

\* The mutant of CheckPermissionStart: the effect has no dependency array and
\* runs again after a completed check.
CheckPermissionStart_EveryRender ==
  /\ chk.pc \in {"mount", "done"}
  /\ isChecking' = TRUE
  /\ chk' = [chk EXCEPT !.pc = "getSession"]
  /\ UNCHANGED << launch, hasAccess >>
  /\ UNCHANGED backendVars
  /\ UNCHANGED loginVars
  /\ UNCHANGED scanVars
  /\ UNCHANGED codeSent

\* useEffect(() => { checkPermission(); }, []) up to the first await.
CheckPermissionStart ==
  /\ chk.pc = "mount"
  /\ isChecking' = TRUE
  /\ chk' = [chk EXCEPT !.pc = "getSession"]
  /\ UNCHANGED << launch, hasAccess >>
  /\ UNCHANGED backendVars
  /\ UNCHANGED loginVars
  /\ UNCHANGED scanVars
  /\ UNCHANGED codeSent

\* The mutant of GetSessionReturns: no early return on a null session, the
\* profile query is issued whenever the platform user id is there.
GetSessionReturns_NoEarlyReturn(outcome) ==
  /\ chk.pc = "getSession"
  /\ IF outcome = "throws" \/ launch.raw = "throws"
       THEN CheckRejects
       ELSE IF Truthy(CurrentTgId)
         THEN /\ chk' = [chk EXCEPT !.pc = "profiles", !.session = SessionData(outcome),
                                     !.tgId = CurrentTgId, !.queried = TRUE,
                                     !.failed = (outcome = "error")]
              /\ UNCHANGED << isChecking, hasAccess >>
         ELSE CheckSettles(FALSE, outcome = "error")
  /\ UNCHANGED launch
  /\ UNCHANGED backendVars
  /\ UNCHANGED loginVars
  /\ UNCHANGED scanVars
  /\ UNCHANGED codeSent

\* await supabase.auth.getSession() returns; the code runs to the next await
\* or to the end.
GetSessionReturns(outcome) ==
  /\ chk.pc = "getSession"
  /\ IF outcome = "throws"
       THEN CheckRejects
       ELSE IF SessionData(outcome) = NoSession
         THEN CheckSettles(FALSE, outcome = "error")
         ELSE IF launch.raw = "throws"
           THEN CheckRejects
           ELSE IF Truthy(CurrentTgId)
             THEN /\ chk' = [chk EXCEPT !.pc = "profiles",
                                         !.session = SessionData(outcome),
                                         !.tgId = CurrentTgId, !.queried = TRUE]
                  /\ UNCHANGED << isChecking, hasAccess >>
             ELSE /\ hasAccess' = FALSE
                  /\ isChecking' = FALSE
                  /\ chk' = [chk EXCEPT !.pc = "done", !.granted = "false",
                                         !.session = SessionData(outcome),
                                         !.tgId = CurrentTgId]
  /\ UNCHANGED launch
  /\ UNCHANGED backendVars
  /\ UNCHANGED loginVars
  /\ UNCHANGED scanVars
  /\ UNCHANGED codeSent

\* await of the profiles query returns.
ProfilesQueryReturns(outcome) ==
  /\ chk.pc = "profiles"
  /\ IF outcome = "throws"
       THEN CheckRejects
       ELSE CheckSettles(ProfileMatches(ProfileData(outcome, chk.session), chk.tgId),
                         chk.failed \/ outcome = "error")
  /\ UNCHANGED launch
  /\ UNCHANGED backendVars
  /\ UNCHANGED loginVars
  /\ UNCHANGED scanVars
  /\ UNCHANGED codeSent

\* ---------------------------------------------------------- LoginScreen
\* No signInWithOtp call has returned without error yet.
NoCodeSent == [any |-> FALSE, email |-> << >>]

NoInv ==
  [kind |-> "none", pc |-> "none", email |-> << >>, raw |-> "none",
   session |-> NoSession, send |-> "none", verify |-> "none", bind |-> "none",
   alert |-> "none", success |-> FALSE, whileLoading |-> FALSE]

\* A handler invocation as it is dispatched: the closure's email, and whether
\* the loading flag was set when the tap arrived.
NewInv(kind) ==
  [NoInv EXCEPT !.kind = kind, !.email = email, !.whileLoading = loading]

RemoveAt(seq, i) == SubSeq(seq, 1, i - 1) \o SubSeq(seq, i + 1, Len(seq))

\* The mutant of LoginFormRendered: no render swap, the form stays up while
\* loading.
LoginFormRendered_NoSwap == Rendered = "login"

\* if (loading) return <Placeholder .../>; the inputs and buttons are
\* rendered, inside App's LoginScreen branch, only when loading is false.
LoginFormRendered == Rendered = "login" /\ ~loading

\* The mutant of SetEmail: the Email input is rendered at both steps.
SetEmail_AnyStep(e) ==
  /\ LoginFormRendered
  /\ e # email
  /\ email' = e
  /\ settled' = NoInv
  /\ UNCHANGED << launch, isChecking, hasAccess, chk, step, loading, active,
                  afterBindFailure, codeSent >>
  /\ UNCHANGED backendVars
  /\ UNCHANGED scanVars

\* onChange={(e) => setEmail(e.target.value)} of the Email input, which is
\* rendered at step "email".
SetEmail(e) ==
  /\ LoginFormRendered
  /\ step = "email"
  /\ e # email
  /\ email' = e
  /\ settled' = NoInv
  /\ UNCHANGED << launch, isChecking, hasAccess, chk, step, loading, active,
                  afterBindFailure >>
  /\ UNCHANGED backendVars
  /\ UNCHANGED scanVars
  /\ UNCHANGED codeSent

\* onClick={() => setStep("email")} of Back to Email.
BackToEmail ==
  /\ LoginFormRendered
  /\ step = "otp"
  /\ step' = "email"
  /\ settled' = NoInv
  /\ UNCHANGED << launch, isChecking, hasAccess, chk, email, loading, active,
                  afterBindFailure >>
  /\ UNCHANGED backendVars
  /\ UNCHANGED scanVars
  /\ UNCHANGED codeSent

\* A signInWithOtp or verifyOtp call is made.
NoteLoginCall ==
  afterBindFailure' = IF afterBindFailure = "no" THEN "no" ELSE "called"

\* handleSendOtp up to its await (Send Login Code tapped).
HandleSendOtp ==
  /\ LoginFormRendered
  /\ step = "email"
  /\ Len(active) < MaxInFlight
  /\ IF ~EmailAllowed(email)
       THEN /\ settled' = [NewInv("send") EXCEPT !.pc = "returned", !.alert = "denied"]
            /\ UNCHANGED << loading, active, afterBindFailure >>
       ELSE /\ loading' = TRUE
            /\ active' = Append(active, [NewInv("send") EXCEPT !.pc = "signInWithOtp",
                                                               !.send = "pending"])
            /\ settled' = NoInv
            /\ NoteLoginCall
  /\ UNCHANGED << launch, isChecking, hasAccess, chk, email, step >>
  /\ UNCHANGED backendVars
  /\ UNCHANGED scanVars
  /\ UNCHANGED codeSent

\* The mutant of SignInWithOtpReturns: setStep("otp") runs whether or not the
\* call returned an error.
SignInWithOtpReturns_StepOnError(i, outcome) ==
  /\ i \in 1..Len(active)
  /\ active[i].pc = "signInWithOtp"
  /\ active' = RemoveAt(active, i)
  /\ CASE outcome = "throws" ->
            /\ settled' = [active[i] EXCEPT !.pc = "rejected", !.send = "throws"]
            /\ UNCHANGED << loading, step >>
       [] outcome = "error" ->
            /\ loading' = FALSE
            /\ step' = "otp"
            /\ settled' = [active[i] EXCEPT !.pc = "returned", !.send = "error",
                                            !.alert = "sendFailed"]
       [] outcome = "ok" ->
            /\ loading' = FALSE
            /\ step' = "otp"
            /\ settled' = [active[i] EXCEPT !.pc = "returned", !.send = "ok"]
  /\ UNCHANGED << launch, isChecking, hasAccess, chk, email, afterBindFailure >>
  /\ UNCHANGED backendVars
  /\ UNCHANGED scanVars
  /\ codeSent' = IF outcome = "ok"
                 THEN [any |-> TRUE, email |-> active[i].email]
                 ELSE codeSent

\* await supabase.auth.signInWithOtp(...) returns, handleSendOtp runs to its
\* end.
SignInWithOtpReturns(i, outcome) ==
  /\ i \in 1..Len(active)
  /\ active[i].pc = "signInWithOtp"
  /\ active' = RemoveAt(active, i)
  /\ CASE outcome = "throws" ->
            /\ settled' = [active[i] EXCEPT !.pc = "rejected", !.send = "throws"]
            /\ UNCHANGED << loading, step >>
       [] outcome = "error" ->
            /\ loading' = FALSE
            /\ settled' = [active[i] EXCEPT !.pc = "returned", !.send = "error",
                                            !.alert = "sendFailed"]
            /\ UNCHANGED step
       [] outcome = "ok" ->
            /\ loading' = FALSE
            /\ step' = "otp"
            /\ settled' = [active[i] EXCEPT !.pc = "returned", !.send = "ok"]
  /\ UNCHANGED << launch, isChecking, hasAccess, chk, email, afterBindFailure >>
  /\ UNCHANGED backendVars
  /\ UNCHANGED scanVars
  /\ codeSent' = IF outcome = "ok"
                 THEN [any |-> TRUE, email |-> active[i].email]
                 ELSE codeSent

\* handleVerify up to its first await (Verify & Login tapped).
HandleVerify ==
  /\ LoginFormRendered
  /\ step = "otp"
  /\ Len(active) < MaxInFlight
  /\ CASE launch.raw = "throws" ->
            \* initData.raw() throws after setLoading(true)
            /\ loading' = TRUE
            /\ settled' = [NewInv("verify") EXCEPT !.pc = "rejected", !.raw = "throws"]
            /\ UNCHANGED << active, afterBindFailure >>
       [] launch.raw \in {"undefined", "empty"} ->
            \* if (!raw) { alert(...); setLoading(false); return; }
            /\ loading' = FALSE
            /\ settled' = [NewInv("verify") EXCEPT !.pc = "returned", !.raw = launch.raw,
                                                   !.alert = "noInitData"]
            /\ UNCHANGED << active, afterBindFailure >>
       [] launch.raw = "signed" ->
            /\ loading' = TRUE
            /\ active' = Append(active, [NewInv("verify") EXCEPT !.pc = "verifyOtp",
                                                                 !.raw = "signed",
                                                                 !.verify = "pending"])
            /\ settled' = NoInv
            /\ NoteLoginCall
  /\ UNCHANGED << launch, isChecking, hasAccess, chk, email, step >>
  /\ UNCHANGED backendVars
  /\ UNCHANGED scanVars
  /\ UNCHANGED codeSent

\* Outcomes of verifyOtp: a session, neither session nor error, { error },
\* or the promise rejects.
VerifyOutcomes == {"session", "nosession", "error", "throws"}

\* The mutant of VerifyFailed: only the error is tested, not the session.
VerifyFailed_ErrorOnly(outcome) == outcome = "error"

\* if (error || !session)
VerifyFailed(outcome) == outcome \in {"error", "nosession"}

\* The mutant of BindFailed: the bind error is ignored.
BindFailed_Ignored(outcome) == FALSE

\* if (bindError)
BindFailed(outcome) == outcome = "error"

\* The mutant of SessionAfterBindFailure: await supabase.auth.signOut().
SessionAfterBindFailure_SignOut(s) == NoSession

\* The bind-failure branch makes no backend call (the sign-out is commented
\* out): the backend session stays what it was.
SessionAfterBindFailure(s) == s

\* The backend function connect-telegram, on success: the caller's profile row
\* is created or overwritten with the user id of the signed payload.
ConnectTelegram(table, subject, user) == [table EXCEPT ![subject] = user]

\* connect-telegram can succeed only for an authenticated caller and a signed
\* payload that carries a user.
BindOutcomes ==
  IF session # NoSession /\ launch.user.t = "number"
  THEN {"ok", "error", "throws"}
  ELSE {"error", "throws"}

\* onLoginSuccess={() => setHasAccess(true)}
OnLoginSuccess == hasAccess' = TRUE

\* await supabase.auth.verifyOtp(...) returns; handleVerify runs to the bind
\* call or to its end.
VerifyOtpReturns(i, outcome) ==
  /\ i \in 1..Len(active)
  /\ active[i].pc = "verifyOtp"
  /\ session' = IF outcome = "session" THEN SubjectOf(active[i].email) ELSE session
  /\ CASE outcome = "throws" ->
            /\ active' = RemoveAt(active, i)
            /\ settled' = [active[i] EXCEPT !.pc = "rejected", !.verify = "throws"]
            /\ UNCHANGED loading
       [] outcome # "throws" /\ VerifyFailed(outcome) ->
            /\ active' = RemoveAt(active, i)
            /\ loading' = FALSE
            /\ settled' = [active[i] EXCEPT !.pc = "returned", !.verify = outcome,
                                            !.alert = "invalidCode"]
       [] OTHER ->
            /\ active' = [active EXCEPT ![i] =
                            [@ EXCEPT !.pc = "invoke", !.verify = outcome,
                                      !.bind = "pending",
                                      !.session = IF outcome = "session"
                                                  THEN SubjectOf(active[i].email)
                                                  ELSE NoSession]]
            /\ settled' = NoInv
            /\ UNCHANGED loading
  /\ UNCHANGED << launch, profiles, isChecking, hasAccess, chk, email, step,
                  afterBindFailure >>
  /\ UNCHANGED scanVars
  /\ UNCHANGED codeSent

\* await supabase.functions.invoke("connect-telegram", ...) returns;
\* handleVerify runs to its end.
ConnectTelegramReturns(i, outcome) ==
  /\ i \in 1..Len(active)
  /\ active[i].pc = "invoke"
  /\ outcome \in BindOutcomes
  /\ active' = RemoveAt(active, i)
  /\ profiles' = IF outcome = "ok"
                 THEN ConnectTelegram(profiles, session, launch.user)
                 ELSE profiles
  /\ CASE outcome = "throws" ->
            /\ settled' = [active[i] EXCEPT !.pc = "rejected", !.bind = "throws"]
            /\ UNCHANGED << loading, hasAccess, session, afterBindFailure >>
       [] outcome # "throws" /\ BindFailed(outcome) ->
            /\ loading' = FALSE
            /\ settled' = [active[i] EXCEPT !.pc = "returned", !.bind = outcome,
                                            !.alert = "bindFailed"]
            /\ session' = SessionAfterBindFailure(session)
            /\ afterBindFailure' = "quiet"
            /\ UNCHANGED hasAccess
       [] OTHER ->
            /\ loading' = FALSE
            /\ OnLoginSuccess
            /\ settled' = [active[i] EXCEPT !.pc = "returned", !.bind = outcome,
                                            !.success = TRUE]
            /\ UNCHANGED << session, afterBindFailure >>
  /\ UNCHANGED << launch, isChecking, chk, email, step >>
  /\ UNCHANGED scanVars
  /\ UNCHANGED codeSent

\* ------------------------------------------------------------ QrScanner
ErrNone == "none"
\* "QR scanner was closed or no QR content was captured."
ErrClosed == "closed"
\* "Failed to open QR scanner (unsupported environment or client limitation)."
ErrFailed == "failed"

\* An openScanner invocation. accepted: the payload the acceptance predicate
\* returned true for; sets: the values it passed to setQrResult; opened: the
\* urls it passed to openLink; start: qrResult when it was dispatched.
NoScan ==
  [pc |-> "none", timer |-> "none", resolved |-> FALSE, accepted |-> JsUndefined,
   rejectedBefore |-> FALSE, sets |-> << >>, opened |-> << >>, threw |-> FALSE,
   start |-> JsNull]

NoScanEv == [ev |-> "none", inv |-> NoScan, payload |-> JsUndefined, ret |-> FALSE]

NoNormalize == [called |-> FALSE, input |-> << >>, result |-> JsNull]

\* useState(null), useState(null), useState([]) of QrScanner.
ScanInit ==
  /\ qrResult = JsNull
  /\ error = ErrNone
  /\ debugLogs = "none"
  /\ scans = EmptyBag
  /\ scanEv = NoScanEv
  /\ nz = NoNormalize

\* ------------------------------------------------- QrScanner: normalizeUrl
\* White space removed by String.prototype.trim and excluded by \S.
WhiteSpace == { " ", "\t", "\n" }

RECURSIVE TrimStart(_)
TrimStart(str) ==
  IF str # << >> /\ Head(str) \in WhiteSpace THEN TrimStart(Tail(str)) ELSE str

RECURSIVE TrimEnd(_)
TrimEnd(str) ==
  IF str # << >> /\ str[Len(str)] \in WhiteSpace
  THEN TrimEnd(SubSeq(str, 1, Len(str) - 1))
  ELSE str

\* The mutant of Trim: the value is used as scanned.
Trim_None(str) == str

\* String.prototype.trim
Trim(str) == TrimEnd(TrimStart(str))

\* The mutant of FoldCase: the patterns without the i flag.
FoldCase_None(c) == c

\* The i flag of the two patterns: the letters they spell, folded.
FoldCase(c) ==
  CASE c = "H" -> "h"
    [] c = "T" -> "t"
    [] c = "P" -> "p"
    [] c = "S" -> "s"
    [] c = "W" -> "w"
    [] OTHER -> c

HttpPrefix == << "h", "t", "t", "p", ":", "/", "/" >>
HttpsPrefix == << "h", "t", "t", "p", "s", ":", "/", "/" >>
WwwPrefix == << "w", "w", "w", "." >>

\* ^literal of a pattern with the i flag.
MatchesAt(str, literal) ==
  /\ Len(str) >= Len(literal)
  /\ \A k \in 1..Len(literal) : FoldCase(str[k]) = literal[k]

\* \S+$ from position from on.
NonSpaceRest(str, from) ==
  /\ from <= Len(str)
  /\ \A k \in from..Len(str) : str[k] \notin WhiteSpace

\* /^https?:\/\/\S+$/i.test(raw)
HasProtocol(raw) ==
  \E scheme \in { HttpPrefix, HttpsPrefix } :
    MatchesAt(raw, scheme) /\ NonSpaceRest(raw, Len(scheme) + 1)

\* /^www\.\S+$/i.test(raw)
HasWww(raw) == MatchesAt(raw, WwwPrefix) /\ NonSpaceRest(raw, Len(WwwPrefix) + 1)

\* Code points the URL parser refuses in a host (of those that occur in the
\* payloads checked; none of them holds ":" or "@" after the scheme).
ForbiddenHost == { "<", ">", "^", "|" }

RECURSIVE AfterColon(_)
AfterColon(str) ==
  IF str = << >> THEN << >>
  ELSE IF Head(str) = ":" THEN Tail(str) ELSE AfterColon(Tail(str))

\* The parser of a special scheme skips the slashes before the authority.
RECURSIVE SkipSlashes(_)
SkipSlashes(str) ==
  IF str # << >> /\ Head(str) \in { "/", "\\" } THEN SkipSlashes(Tail(str)) ELSE str

RECURSIVE HostOf(_)
HostOf(str) ==
  IF str = << >> \/ Head(str) \in { "/", "\\", "?", "#" } THEN << >>
  ELSE << Head(str) >> \o HostOf(Tail(str))

\* new URL(str) does not throw, for str with an http or https scheme: the
\* host is not empty and holds no forbidden code point.
UrlParses(str) ==
  LET host == HostOf(SkipSlashes(AfterColon(str)))
  IN  host # << >> /\ \A k \in 1..Len(host) : host[k] \notin ForbiddenHost

\* normalizeUrl(value): the url to open, or JsNull.
normalizeUrl(value) ==
  LET raw == Trim(value)
  IN  IF raw = << >> THEN JsNull
      ELSE IF HasProtocol(raw)
        THEN IF UrlParses(raw) THEN JsStr(raw) ELSE JsNull
      ELSE IF HasWww(raw)
        THEN LET normalized == HttpsPrefix \o raw
             IN  IF UrlParses(normalized) THEN JsStr(normalized) ELSE JsNull
      ELSE JsNull

\* The values normalizeUrl is checked on: white space, a beginning, a rest,
\* white space.
Margins == { << >>, << " " >>, << "\n" >>, << "\t" >> }
Beginnings ==
  { << >>,
    << "h", "t", "t", "p", ":", "/", "/" >>,
    << "h", "t", "t", "p", "s", ":", "/", "/" >>,
    << "H", "T", "T", "P", ":", "/", "/" >>,
    << "H", "t", "t", "p", "s", ":", "/", "/" >>,
    << "h", "t", "t", "p", ":", "/" >>,
    << "w", "w", "w", "." >>,
    << "W", "W", "W", "." >>,
    << "f", "t", "p", ":", "/", "/" >>,
    << "w", "w", "." >> }
Rests ==
  { << >>,
    << "a" >>,
    << "a", ".", "b", "/", "x" >>,
    << "<" >>,
    << "a", " ", "b" >>,
    << "/" >>,
    << "/", "/", "a" >>,
    << "a", "<" >> }
NormalizeInputs ==
  { lead \o beginning \o rest \o trail :
      lead \in Margins, beginning \in Beginnings, rest \in Rests, trail \in Margins }

\* ------------------------------------------------------- specification
Init ==
  /\ launch \in LaunchContexts
  /\ session \in {NoSession} \cup Subjects
  /\ profiles \in [Subjects -> ProfileValues]
  /\ isChecking = TRUE
  /\ hasAccess = FALSE
  /\ chk = [pc |-> "mount", session |-> NoSession, tgId |-> JsUndefined,
            queried |-> FALSE, failed |-> FALSE, granted |-> "unset"]
  /\ email = << >>
  /\ step = "email"
  /\ loading = FALSE
  /\ active = << >>
  /\ settled = NoInv
  /\ afterBindFailure = "no"
  /\ codeSent = NoCodeSent
  /\ ScanInit

Next ==
  \/ CheckPermissionStart
  \/ \E outcome \in ReadOutcomes : GetSessionReturns(outcome)
  \/ \E outcome \in ReadOutcomes : ProfilesQueryReturns(outcome)
  \/ \E e \in TypedEmails : SetEmail(e)
  \/ BackToEmail
  \/ HandleSendOtp
  \/ \E i \in 1..MaxInFlight, outcome \in ReadOutcomes : SignInWithOtpReturns(i, outcome)
  \/ HandleVerify
  \/ \E i \in 1..MaxInFlight, outcome \in VerifyOutcomes : VerifyOtpReturns(i, outcome)
  \/ \E i \in 1..MaxInFlight, outcome \in ReadOutcomes : ConnectTelegramReturns(i, outcome)

Spec == Init /\ [][Next]_vars

\* --------------------------------------- the backend changing under a load
\* The session ends after the check: natural expiry, or a sign-out elsewhere.
SessionEnds ==
  /\ chk.pc \in {"done", "rejected"}
  /\ session # NoSession
  /\ session' = NoSession
  /\ settled' = NoInv
  /\ UNCHANGED << launch, profiles, isChecking, hasAccess, chk, email, step,
                  loading, active, afterBindFailure >>
  /\ UNCHANGED scanVars
  /\ UNCHANGED codeSent

\* A profile row changes after the check: bound again from another launch, or
\* removed.
ProfileRebound(subject, value) ==
  /\ chk.pc \in {"done", "rejected"}
  /\ profiles[subject] # value
  /\ profiles' = [profiles EXCEPT ![subject] = value]
  /\ settled' = NoInv
  /\ UNCHANGED << launch, session, isChecking, hasAccess, chk, email, step,
                  loading, active, afterBindFailure >>
  /\ UNCHANGED scanVars
  /\ UNCHANGED codeSent

NextEnv ==
  \/ Next
  \/ SessionEnds
  \/ \E subject \in Subjects, value \in ProfileValues : ProfileRebound(subject, value)

SpecEnv == Init /\ [][NextEnv]_vars

\* ------------------------------------------- every backend call returns
\* Each awaited call of the login handlers eventually returns or throws.
LoginCallsReturn ==
  /\ WF_vars(\E i \in 1..MaxInFlight, outcome \in ReadOutcomes :
               SignInWithOtpReturns(i, outcome))
  /\ WF_vars(\E i \in 1..MaxInFlight, outcome \in VerifyOutcomes :
               VerifyOtpReturns(i, outcome))
  /\ WF_vars(\E i \in 1..MaxInFlight, outcome \in ReadOutcomes :
               ConnectTelegramReturns(i, outcome))

SpecLive == Init /\ [][Next]_vars /\ LoginCallsReturn

\* ------------------------------------------ QrScanner mounted (main view)
\* The App after a check that granted access: the session's profile is
\* bound to the launching platform user, QrScanner is rendered.
InitMain ==
  /\ launch = [raw |-> "signed", user |-> JsNum(111)]
  /\ session = "u1"
  /\ profiles = [subject \in Subjects |-> IF subject = "u1" THEN JsNum(111) ELSE NoRecord]
  /\ isChecking = FALSE
  /\ hasAccess = TRUE
  /\ chk = [pc |-> "done", session |-> "u1", tgId |-> JsNum(111),
            queried |-> TRUE, failed |-> FALSE, granted |-> "true"]
  /\ email = << >>
  /\ step = "email"
  /\ loading = FALSE
  /\ active = << >>
  /\ settled = NoInv
  /\ afterBindFailure = "no"
  /\ codeSent = NoCodeSent
  /\ ScanInit

\* ------------------------------------------------- QrScanner: openScanner
\* What the host scanner hands to the capture callback: a non-string, "",
\* white space, a text and a www address.
PayloadHello == JsStr(<< "h", "e", "l", "l", "o" >>)
PayloadWww == JsStr(<< "w", "w", "w", ".", "e", "x", "a", "m", "p", "l", "e", ".", "c", "o", "m", "/", "x" >>)
ScanPayloads == { JsNull, JsStr(<< >>), JsStr(<< " ", " " >>), PayloadHello, PayloadWww }

\* openLink returns or throws (where it is called).
LinkOutcomes == { "ok", "throws" }

\* The mutant of Accepts: the length is taken without trim().
Accepts_NoTrim(payload) == payload.t = "string" /\ Len(payload.s) > 0

\* The capture callback goes on: not (typeof scannedQr !== "string" ||
\* scannedQr.trim().length === 0).
Accepts(payload) == payload.t = "string" /\ Len(Trim(payload.s)) > 0

\* The mutant of ResultAfterPayload: the payload is displayed in any case.
ResultAfterPayload_AlwaysShown(payload, url) == payload

\* The value passed to setQrResult for a payload: null before openLink(url),
\* the payload when normalizeUrl gave no url.
ResultAfterPayload(payload, url) == IF url # JsNull THEN JsNull ELSE payload

\* The openLink call made for a payload.
LinksAfterPayload(url) == IF url # JsNull THEN << url.s >> ELSE << >>

\* The invocation after "const url = normalizeUrl(p); if (url) {...} else".
Handled(inv, payload) ==
  LET url == normalizeUrl(payload.s)
  IN  [inv EXCEPT !.sets = Append(@, ResultAfterPayload(payload, url)),
                  !.opened = @ \o LinksAfterPayload(url)]

\* An invocation that ended with its timer armed: only the timer is left.
TimerOnly == [NoScan EXCEPT !.pc = "ended", !.timer = "armed"]

\* The invocations without inv (it returned), and with inv gone on as next.
Returned(inv) == scans (-) SetToBag({ inv })
Resumed(inv, next) == Returned(inv) (+) SetToBag({ next })

\* Tap on "Start QR Scanner": openScanner up to await isTMA("complete").
OpenScanner ==
  /\ Rendered = "main"
  /\ BagCardinality(scans) < MaxScans
  /\ error' = ErrNone
  /\ debugLogs' = "initData"
  /\ scans' = scans (+) SetToBag({ [NoScan EXCEPT !.pc = "isTMA", !.timer = "armed",
                                                  !.start = qrResult] })
  /\ scanEv' = [NoScanEv EXCEPT !.ev = "tap"]
  /\ UNCHANGED << qrResult, nz >>
  /\ UNCHANGED appVars

\* isTMA("complete") resolves or rejects (both are only logged), then
\* qrScanner.capture is called.
IsTmaSettles(inv) ==
  /\ BagIn(inv, scans)
  /\ inv.pc = "isTMA"
  /\ debugLogs' = "calling"
  /\ scans' = Resumed(inv, [inv EXCEPT !.pc = "capture"])
  /\ scanEv' = [NoScanEv EXCEPT !.ev = "called"]
  /\ UNCHANGED << qrResult, error, nz >>
  /\ UNCHANGED appVars

\* The host scanner hands a payload to the capture callback.
CaptureCallback(inv, payload, link) ==
  /\ BagIn(inv, scans)
  /\ inv.pc = "capture"
  /\ inv.accepted = JsUndefined
  /\ link = "throws" => (Accepts(payload) /\ normalizeUrl(payload.s) # JsNull)
  /\ IF ~Accepts(payload)
     THEN LET next == [inv EXCEPT !.rejectedBefore = TRUE]
          IN  /\ scans' = Resumed(inv, next)
              /\ debugLogs' = "received"
              /\ qrResult' = qrResult
              /\ scanEv' = [ev |-> "callback", inv |-> next,
                            payload |-> payload, ret |-> FALSE]
     ELSE LET url == normalizeUrl(payload.s)
              next == [Handled(inv, payload) EXCEPT !.accepted = payload]
          IN  /\ scans' = Resumed(inv, next)
              /\ qrResult' = ResultAfterPayload(payload, url)
              /\ debugLogs' = IF url = JsNull THEN "showing"
                              ELSE IF link = "throws" THEN "openLinkThrew"
                              ELSE "dispatched"
              /\ scanEv' = [ev |-> "callback", inv |-> next,
                            payload |-> payload, ret |-> TRUE]
  /\ UNCHANGED << error, nz >>
  /\ UNCHANGED appVars

\* The promise of qrScanner.capture resolves with the accepted payload, or
\* with undefined when the scanner was closed.
CaptureResolves(inv, link) ==
  /\ BagIn(inv, scans)
  /\ inv.pc = "capture"
  /\ link = "throws" => (Truthy(inv.accepted) /\ normalizeUrl(inv.accepted.s) # JsNull)
  /\ LET scanned == inv.accepted
         base == [inv EXCEPT !.pc = "ended", !.resolved = TRUE,
                    !.timer = IF @ = "armed" THEN "cleared" ELSE @]
     IN  IF ~Truthy(scanned)
         THEN /\ error' = ErrClosed
              /\ debugLogs' = "noPayload"
              /\ qrResult' = qrResult
              /\ scanEv' = [ev |-> "resolved", inv |-> base,
                            payload |-> scanned, ret |-> FALSE]
         ELSE LET url == normalizeUrl(scanned.s)
                  threw == url # JsNull /\ link = "throws"
                  last == [Handled(base, scanned) EXCEPT !.threw = threw]
              IN  /\ qrResult' = ResultAfterPayload(scanned, url)
                  /\ error' = IF threw THEN ErrFailed ELSE error
                  /\ debugLogs' = IF threw THEN "exception"
                                  ELSE IF url = JsNull THEN "showing"
                                  ELSE "dispatched"
                  /\ scanEv' = [ev |-> "resolved", inv |-> last,
                                payload |-> scanned, ret |-> FALSE]
  /\ scans' = Returned(inv)
  /\ nz' = nz
  /\ UNCHANGED appVars

\* qrScanner.capture throws or its promise rejects: the catch block; the
\* timer is not cleared (captureResolved is false).
CaptureRejects(inv) ==
  /\ BagIn(inv, scans)
  /\ inv.pc = "capture"
  /\ error' = ErrFailed
  /\ debugLogs' = "exception"
  /\ scans' = IF inv.timer = "armed" THEN Resumed(inv, TimerOnly) ELSE Returned(inv)
  /\ scanEv' = [ev |-> "rejected", inv |-> [inv EXCEPT !.pc = "ended"],
                payload |-> inv.accepted, ret |-> FALSE]
  /\ UNCHANGED << qrResult, nz >>
  /\ UNCHANGED appVars

\* The mutant of TimerFires: the timer gives the scan up.
TimerFires_Aborts(inv) ==
  /\ BagIn(inv, scans)
  /\ inv.timer = "armed"
  /\ debugLogs' = "timeout"
  /\ error' = ErrFailed
  /\ scans' = Returned(inv)
  /\ scanEv' = [NoScanEv EXCEPT !.ev = "timer"]
  /\ UNCHANGED << qrResult, nz >>
  /\ UNCHANGED appVars

\* The callback of window.setTimeout(..., 3000).
TimerFires(inv) ==
  /\ BagIn(inv, scans)
  /\ inv.timer = "armed"
  /\ debugLogs' = IF ~inv.resolved THEN "timeout" ELSE debugLogs
  /\ scans' = IF inv.pc = "ended" THEN Returned(inv)
              ELSE Resumed(inv, [inv EXCEPT !.timer = "fired"])
  /\ scanEv' = [NoScanEv EXCEPT !.ev = "timer"]
  /\ UNCHANGED << qrResult, error, nz >>
  /\ UNCHANGED appVars

\* "Clear logs".
ClearLogs ==
  /\ Rendered = "main"
  /\ debugLogs # "none"
  /\ debugLogs' = "none"
  /\ scanEv' = NoScanEv
  /\ UNCHANGED << qrResult, error, scans, nz >>
  /\ UNCHANGED appVars

NextScan ==
  \/ OpenScanner
  \/ \E inv \in BagToSet(scans) : IsTmaSettles(inv)
  \/ \E inv \in BagToSet(scans), payload \in ScanPayloads, link \in LinkOutcomes :
       CaptureCallback(inv, payload, link)
  \/ \E inv \in BagToSet(scans), link \in LinkOutcomes : CaptureResolves(inv, link)
  \/ \E inv \in BagToSet(scans) : CaptureRejects(inv)
  \/ \E inv \in BagToSet(scans) : TimerFires(inv)
  \/ ClearLogs

SpecScan == InitMain /\ [][NextScan]_vars

\* ------------------------------------------------- normalizeUrl on its own
NormalizeUrlCall(value) ==
  /\ nz' = [called |-> TRUE, input |-> value, result |-> normalizeUrl(value)]
  /\ UNCHANGED << qrResult, error, debugLogs, scans, scanEv >>
  /\ UNCHANGED appVars

NextNormalize == \E value \in NormalizeInputs : NormalizeUrlCall(value)

SpecNormalize == InitMain /\ [][NextNormalize]_vars

\* ------------------------------------------------------------- claims
\* The handler invocations in the state: those suspended, and the one that
\* ended in the last step.
Invocations == { active[i] : i \in 1..Len(active) } \cup ({settled} \ {NoInv})

\* The bound id p denotes the platform user id: the same number, or the
\* decimal string of it.
BoundIdEquals(p, id) ==
  /\ id.t = "number"
  /\ \/ p.t = "number" /\ p.n = id.n
     \/ p.t = "string" /\ ToNumber(p.s) = id.n

\* The access decision on the backend's state: a session exists and the
\* profile record of its subject is bound to the launch platform user id.
AccessDecision ==
  /\ session # NoSession
  /\ profiles[session] # NoRecord
  /\ BoundIdEquals(profiles[session], launch.user)

\* The email is some prefix followed by the allow-listed domain suffix.
HasAllowedSuffix(e) ==
  \E k \in 0..Len(e) : e = SubSeq(e, 1, k) \o AllowedSuffix

\* C1: the main routed application is rendered only if a backend session
\* exists and the profile record of its subject is bound to the current launch
\* platform user id; otherwise the login flow or the loading state is up.
C1_MainOnlyWithAccess == Rendered = "main" => AccessDecision

\* C1 witness: the main application is rendered after a login whose access
\* check had denied access.
C1_Witness ==
  Rendered = "main" /\ chk.granted = "false" /\ settled.success

\* C2: when a read of checkPermission fails, returns an error or throws, the
\* check ends with access not granted and the login flow rendered (the
\* loading state is left).
C2_FailsClosedToLogin ==
  (chk.failed /\ chk.pc \in {"done", "rejected"})
    => (chk.granted # "true" /\ ~isChecking)

\* The part of C2 that the code keeps: a check with a failed read never
\* grants access.
C2_NeverGrantedOnError == chk.failed => chk.granted # "true"

\* C3: in every handleVerify invocation the bind function is invoked only
\* after verifyOtp returned a session without error, onLoginSuccess only after
\* the bind call returned without error, and a failed verify is followed by no
\* bind call and no success callback.
C3_VerifyThenBindThenSuccess ==
  \A inv \in Invocations :
    /\ inv.bind # "none" => (inv.verify = "session" /\ inv.session # NoSession)
    /\ inv.success => inv.bind = "ok"
    /\ inv.verify \in {"error", "nosession", "throws"}
         => (inv.bind = "none" /\ ~inv.success)

\* C3 witness: a handleVerify invocation went through verify, bind and the
\* success callback.
C3_Witness ==
  settled.kind = "verify" /\ settled.verify = "session" /\ settled.bind = "ok"
    /\ settled.success

\* C4: when the signed launch payload is unavailable (initData.raw() gives
\* nothing or throws), handleVerify ends with the environment error shown and
\* with no verifyOtp call and no bind call made.
C4_AbortsWithEnvironmentError ==
  (settled.kind = "verify" /\ launch.raw \in {"undefined", "empty", "throws"})
    => /\ settled.alert = "noInitData"
       /\ settled.verify = "none"
       /\ settled.bind = "none"

\* The part of C4 that the code keeps: no verifyOtp and no bind call is made
\* without a signed launch payload.
C4_NoCallWithoutPayload ==
  \A inv \in Invocations :
    (inv.kind = "verify" /\ launch.raw # "signed")
      => (inv.verify = "none" /\ inv.bind = "none")

\* C5: for every email that does not end with the allow-listed suffix,
\* handleSendOtp makes no backend call and leaves step at "email" and loading
\* false.
C5_DisallowedEmailNoCall ==
  /\ \A i \in 1..Len(active) :
       active[i].kind = "send" => HasAllowedSuffix(active[i].email)
  /\ (settled.kind = "send" /\ ~HasAllowedSuffix(settled.email))
       => /\ settled.send = "none"
          /\ settled.alert = "denied"
          /\ step = "email"
          /\ ~loading
          /\ active = << >>

\* C5 witness: handleSendOtp rejected an email that contains the suffix
\* without ending in it.
C5_Witness ==
  settled.kind = "send" /\ settled.email = EmailTrailingSpace
    /\ settled.alert = "denied"

\* C6: when checkPermission completes with no read failed, hasAccess equals:
\* session present, platform user id available, profile record present and
\* its bound id equal to the platform user id.
C6_CheckComputesDecision ==
  [][(chk.pc # "done" /\ chk'.pc = "done" /\ ~chk'.failed)
       => (hasAccess' <=> AccessDecision')]_vars

\* C6 witness: the check granted access on a bound id stored as the decimal
\* string of the platform user id.
C6_Witness ==
  /\ chk.pc = "done" /\ chk.granted = "true"
  /\ profiles[chk.session] = JsStr(<< 1, 1, 1 >>)

\* C7: the profile query is issued only after a session and a platform user
\* id have been obtained; with no session the check ends with access denied
\* and no profile query, whatever the profile data.
C7_ProfileQueryAfterSessionAndId ==
  /\ chk.queried => /\ chk.session # NoSession /\ session # NoSession
                    /\ Truthy(chk.tgId) /\ launch.user.t = "number"
  /\ (chk.pc = "done" /\ chk.session = NoSession)
       => (~chk.queried /\ chk.granted = "false")

\* C7 witness: the check ended without a query although the stored profile is
\* bound to the current platform user id, because there is no session.
C7_Witness ==
  /\ chk.pc = "done" /\ ~chk.queried /\ session = NoSession
  /\ launch.user = JsNum(111) /\ profiles["u1"] = JsNum(111)

\* C8: when the bind call fails after a successful verify, the session that
\* verify created is still there, the error is shown, onLoginSuccess is not
\* invoked, hasAccess is false and the step is "otp".
C8_BindFailureLeavesSession ==
  (settled.kind = "verify" /\ settled.bind = "error")
    => /\ session # NoSession
       /\ session = settled.session
       /\ settled.alert = "bindFailed"
       /\ ~settled.success
       /\ ~hasAccess
       /\ step = "otp"

\* C8 witness: a bind call returned an error after verify gave a session.
C8_Witness ==
  settled.kind = "verify" /\ settled.verify = "session" /\ settled.bind = "error"

\* C9: a bind failure is recovered by retrying the bind step alone: when
\* onLoginSuccess is reached after a bind failure, no signInWithOtp or
\* verifyOtp call has been made since that failure.
C9_BindRetriedWithoutVerify ==
  (settled.success /\ afterBindFailure # "no") => afterBindFailure = "quiet"

\* What the code does instead of C9: after a bind failure, every further bind
\* call and every onLoginSuccess comes after a further verifyOtp call.
C9_BindRetryNeedsVerify ==
  /\ \A i \in 1..Len(active) :
       (active[i].pc = "invoke" /\ afterBindFailure # "no")
         => afterBindFailure = "called"
  /\ (settled.success /\ afterBindFailure # "no") => afterBindFailure = "called"

\* C10: no handler is dispatched while loading is true, and at most one login
\* backend call is in flight at any time.
C10_OneLoginCallInFlight ==
  /\ Len(active) <= 1
  /\ \A inv \in Invocations : ~inv.whileLoading

\* C10 witness: a bind call is in flight with the loading flag set.
C10_Witness ==
  Len(active) = 1 /\ active[1].pc = "invoke" /\ loading

\* C16: App renders exactly one of loading state, login flow and main
\* application: the loading state, with no login handler running, while
\* checkPermission is in flight, and the login flow or the main application
\* once the check has completed.
C16_ExactlyOneView ==
  /\ Cardinality({ v \in {"loading", "login", "main"} : v = Rendered }) = 1
  /\ chk.pc \in {"mount", "getSession", "profiles"} => Rendered = "loading"
  /\ isChecking => (active = << >> /\ settled = NoInv)
  /\ chk.pc = "done" => Rendered \in {"login", "main"}

\* C16 witness: the check has completed with access granted and the main
\* application is rendered.
C16_Witness ==
  chk.pc = "done" /\ chk.granted = "true" /\ Rendered = "main"

\* C17: the login step changes only from "email" to "otp" when the
\* signInWithOtp call succeeded and from "otp" to "email" by Back to Email; a
\* send error leaves it at "email", a verify failure at "otp", and no failed
\* or rejected operation changes it.
C17_StepTransitions ==
  [][/\ step' # step
          => \/ /\ step = "email" /\ step' = "otp"
                /\ settled'.kind = "send" /\ settled'.send = "ok"
             \/ /\ step = "otp" /\ step' = "email"
                /\ settled' = NoInv /\ active' = active /\ loading' = loading
     /\ (settled'.alert # "none" \/ settled'.pc = "rejected") => step' = step
     /\ settled'.send = "error" => step' = "email"
     /\ settled'.verify \in {"error", "nosession"} => step' = "otp"]_vars

\* C17 witness: a verify failure has been shown and the step is still "otp".
C17_Witness ==
  settled.kind = "verify" /\ settled.alert = "invalidCode" /\ step = "otp"

\* C19: the access decision is computed once per load and is not reactive:
\* a settled checkPermission never runs again, after the check completed
\* hasAccess changes only by onLoginSuccess (never by a change of the backend
\* session or profile record), and hasAccess never goes from true to false.
C19_DecisionOnceNotReactive ==
  [][/\ chk.pc \in {"done", "rejected"} => chk' = chk
     /\ hasAccess => hasAccess'
     /\ (chk.pc = "done" /\ hasAccess' # hasAccess) => settled'.success
     /\ (chk.pc = "done" /\ settled' = NoInv /\ active' = active)
          => hasAccess' = hasAccess]_vars

\* C19 witness: the main application is still rendered after the session the
\* check had found has ended.
C19_Witness ==
  Rendered = "main" /\ chk.granted = "true" /\ session = NoSession

\* ------------------------------------------------- claims: QrScanner
IsBlank(c) == c = " " \/ c = "\t" \/ c = "\n"

\* The input without its leading and trailing white space.
Stripped(v) ==
  LET solid == { k \in 1..Len(v) : ~IsBlank(v[k]) }
  IN  IF solid = {} THEN << >>
      ELSE SubSeq(v, CHOOSE k \in solid : \A o \in solid : k <= o,
                     CHOOSE k \in solid : \A o \in solid : k >= o)

\* str spells word, whatever the case of its letters.
Spelled(str, word) ==
  /\ Len(str) = Len(word)
  /\ \A k \in 1..Len(word) :
       \/ str[k] = word[k]
       \/ << word[k], str[k] >> \in
            { << "h", "H" >>, << "t", "T" >>, << "p", "P" >>,
              << "s", "S" >>, << "w", "W" >> }

NoBlank(r) == \A k \in 1..Len(r) : ~IsBlank(r[k])

\* r matches ^https?://\S+$ without regard to case.
LooksHttp(r) ==
  /\ NoBlank(r)
  /\ \/ Len(r) > 7 /\ Spelled(SubSeq(r, 1, 7), << "h", "t", "t", "p", ":", "/", "/" >>)
     \/ Len(r) > 8 /\ Spelled(SubSeq(r, 1, 8), << "h", "t", "t", "p", "s", ":", "/", "/" >>)

\* r matches ^www\.\S+$ without regard to case.
LooksWww(r) ==
  /\ NoBlank(r)
  /\ Len(r) > 4
  /\ Spelled(SubSeq(r, 1, 4), << "w", "w", "w", "." >>)

\* The classification of a scanned value: the url to open, or JsNull.
Classified(v) ==
  LET r == Stripped(v)
      prefixed == << "h", "t", "t", "p", "s", ":", "/", "/" >> \o r
  IN  CASE LooksHttp(r) /\ UrlParses(r) -> JsStr(r)
        [] LooksWww(r) /\ UrlParses(prefixed) -> JsStr(prefixed)
        [] OTHER -> JsNull

\* C15: normalizeUrl classifies the trimmed input three ways: a string
\* matching ^https?://\S+$ (any case) that parses is returned unchanged, a
\* string matching ^www\.\S+$ (any case) whose https://-prefixed form parses
\* is returned prefixed, every other string (empty, white space only, or
\* matching but not parsing) gives null.
C15_NormalizeClassifies ==
  nz.called => nz.result = Classified(nz.input)

\* A padded upper-case www value was returned trimmed and prefixed.
C15_Witness ==
  /\ nz.called
  /\ nz.input = << " ", "W", "W", "W", ".", "a", ".", "b", "/", "x", "\n" >>
  /\ nz.result = JsStr(<< "h", "t", "t", "p", "s", ":", "/", "/",
                          "W", "W", "W", ".", "a", ".", "b", "/", "x" >>)

\* C14: the acceptance predicate returns true exactly for a string with
\* non-empty trimmed content, and only for the first such payload of a scan;
\* for every other payload (non-string, empty, white space only) it returns
\* false and changes neither qrResult nor error nor calls openLink; the text
\* "hello" accepted after rejected payloads ends as qrResult, no link opened.
C14_AcceptsFirstNonBlankString ==
  [][scanEv'.ev = "callback"
       => /\ scanEv'.ret =
               /\ scanEv'.payload.t = "string"
               /\ \E k \in 1..Len(scanEv'.payload.s) : ~IsBlank(scanEv'.payload.s[k])
          /\ ~scanEv'.ret
               => /\ qrResult' = qrResult
                  /\ error' = error
                  /\ \E inv \in BagToSet(scans) :
                       /\ inv.pc = "capture"
                       /\ scans' = (scans (-) SetToBag({ inv }))
                                      (+) SetToBag({ [inv EXCEPT !.rejectedBefore = TRUE] })
          /\ scanEv'.ret
               => \E inv \in BagToSet(scans) :
                    /\ inv.accepted = JsUndefined
                    /\ scanEv'.inv.accepted = scanEv'.payload
                    /\ scans' = (scans (-) SetToBag({ inv })) (+) SetToBag({ scanEv'.inv })
          /\ (scanEv'.ret /\ scanEv'.payload = PayloadHello)
               => qrResult' = PayloadHello /\ scanEv'.inv.opened = << >>]_vars

\* "hello" was accepted after the predicate had rejected a payload.
C14_Witness ==
  /\ scanEv.ev = "callback"
  /\ scanEv.ret
  /\ scanEv.payload = PayloadHello
  /\ scanEv.inv.rejectedBefore
  /\ qrResult = PayloadHello
  /\ scanEv.inv.opened = << >>

\* The openScanner invocations in sight: pending, or ended in the last step.
ScanInvocations == BagToSet(scans) \cup { scanEv.inv }

\* The last step handled a payload (in the callback or after the promise).
PayloadHandled ==
  \/ scanEv.ev = "callback" /\ scanEv.ret
  \/ scanEv.ev = "resolved" /\ scanEv.payload # JsUndefined

\* C11: for an accepted payload a scan does exactly one of two things, in
\* the capture callback and again after the resolved promise: a payload
\* classified as a URL clears qrResult and is opened in its normalized form
\* ("www.example.com/x" as "https://www.example.com/x"), never displayed; any
\* other payload is stored in qrResult and no link is opened.
C11_OpenOrDisplayNeverBoth ==
  /\ \A inv \in ScanInvocations :
       inv.accepted # JsUndefined
         => LET url == Classified(inv.accepted.s)
            IN  /\ Len(inv.sets) >= 1
                /\ IF url # JsNull
                   THEN /\ \A k \in 1..Len(inv.sets) : inv.sets[k] = JsNull
                        /\ Len(inv.opened) = Len(inv.sets)
                        /\ \A k \in 1..Len(inv.opened) : inv.opened[k] = url.s
                   ELSE /\ \A k \in 1..Len(inv.sets) : inv.sets[k] = inv.accepted
                        /\ inv.opened = << >>
                /\ inv.accepted = PayloadWww
                     => inv.opened[1] = << "h", "t", "t", "p", "s", ":", "/", "/" >>
                                          \o PayloadWww.s
  /\ PayloadHandled
       => qrResult = IF Classified(scanEv.payload.s) # JsNull THEN JsNull
                     ELSE scanEv.payload

\* The www address went through the callback and the resolved promise.
C11_Witness ==
  /\ scanEv.ev = "resolved"
  /\ scanEv.inv.accepted = PayloadWww
  /\ Len(scanEv.inv.sets) = 2
  /\ qrResult = JsNull

\* C12: within one scan the link-opening side effect (openLink) is invoked
\* at most once, the second acceptance signal being a no-op.
C12_OpenLinkAtMostOnce ==
  \A inv \in ScanInvocations : Len(inv.opened) <= 1

\* The scan failed: qrScanner.capture threw or rejected, or openLink threw
\* after the promise resolved.
ScanFailed ==
  \/ scanEv.ev = "rejected"
  \/ scanEv.ev = "resolved" /\ scanEv.inv.threw

\* C13: when the scanner call throws or rejects during a scan, error is the
\* generic environment-limitation message and qrResult equals its value
\* from before that scan started.
C13_FailureLeavesResult ==
  ScanFailed => error = ErrFailed /\ qrResult = scanEv.inv.start

\* C13, the part the code keeps: the failure sets the generic message, and
\* the rejection step itself leaves qrResult as it finds it.
C13_FailureSetsGenericError ==
  [][/\ ScanFailed' => error' = ErrFailed
     /\ scanEv'.ev = "rejected" => qrResult' = qrResult]_vars

\* The invocations suspended at await qrScanner.capture.
PendingCaptures ==
  [inv \in { r \in BagToSet(scans) : r.pc = "capture" } |-> CopiesIn(inv, scans)]

\* C18: at most one qrScanner.capture call is in flight at a time (no second
\* capture can be started while one is pending).
C18_OneCaptureInFlight == BagCardinality(PendingCaptures) <= 1

\* C20: when the 3-second timer fires it only adds a log entry: qrResult and
\* error are unchanged, every pending openScanner invocation is still
\* pending where it was; a payload delivered after the timer fired is
\* handled like any other.
C20_TimerOnlyLogs ==
  [][/\ scanEv'.ev = "timer"
          => /\ qrResult' = qrResult
             /\ error' = error
             /\ debugLogs' = "timeout"
             /\ BagCardinality(PendingCaptures') = BagCardinality(PendingCaptures)
             /\ \E inv \in BagToSet(scans) :
                  /\ inv.timer = "armed"
                  /\ scans' = IF inv.pc = "ended"
                              THEN scans (-) SetToBag({ inv })
                              ELSE (scans (-) SetToBag({ inv }))
                                     (+) SetToBag({ [inv EXCEPT !.timer = "fired"] })
     /\ (scanEv'.ev = "callback" /\ scanEv'.ret /\ scanEv'.inv.timer = "fired")
          => qrResult' = IF Classified(scanEv'.payload.s) # JsNull THEN JsNull
                         ELSE scanEv'.payload]_vars

\* A text was delivered and displayed after the timer of its scan fired.
C20_Witness ==
  /\ scanEv.ev = "callback"
  /\ scanEv.ret
  /\ scanEv.inv.timer = "fired"
  /\ scanEv.payload = PayloadHello
  /\ qrResult = PayloadHello

\* ------------------------------------------------- claims: termination
\* C21: every handleSendOtp or handleVerify invocation that sets loading to
\* true eventually resets it to false, whatever initData.raw(),
\* signInWithOtp, verifyOtp and functions.invoke return or throw.
C21_LoadingEventuallyReset == loading ~> ~loading

\* C21, the part the code keeps: an invocation that runs to its end without
\* an exception leaves loading false, and loading is true only with a call
\* in flight or after an invocation ended by an exception.
C21_ReturnedResetsLoading ==
  [][/\ settled'.pc = "returned" => ~loading'
     /\ (loading' /\ active' = << >>)
          => \/ settled'.pc = "rejected"
             \/ loading /\ active = << >>]_vars

\* C21, why the flag stays: with loading true and no call in flight the
\* placeholder is rendered, no handler can be dispatched and no step of the
\* login flow is possible any more.
C21_NoStepOnceStuck ==
  (Rendered = "login" /\ loading /\ active = << >>) => ~ENABLED Next

\* ------------------------------------------------- claims: verified email
\* C22: whenever verifyOtp is called, the email it sends ends with the
\* allow-listed suffix and is the email of the most recent successful
\* signInWithOtp call; step "otp" is held only for that email, and the email
\* field does not change while step is "otp" or loading is true.
C22_VerifySendsRequestedEmail ==
  /\ [](/\ \A inv \in Invocations :
             (inv.kind = "verify" /\ inv.verify # "none")
               => /\ HasAllowedSuffix(inv.email)
                  /\ codeSent.any
                  /\ inv.email = codeSent.email
        /\ step = "otp" => (codeSent.any /\ email = codeSent.email))
  /\ [][/\ (step = "otp" \/ loading) => email' = email
        /\ (step = "email" /\ step' = "otp")
             => /\ settled'.kind = "send" /\ settled'.send = "ok"
                /\ settled'.email = email']_vars

\* verifyOtp is in flight for the second address a code was requested for.
C22_Witness ==
  /\ Len(active) = 1
  /\ active[1].pc = "verifyOtp"
  /\ active[1].email = EmailNoLocal
  /\ codeSent.email = EmailNoLocal

====
